---- MODULE Spec2Model ----
(***************************************************************************)
(* Blog API (src/main.py): the in-memory content store behind the FastAPI  *)
(* handlers.  The state is the five module globals (posts_db, comments_db, *)
(* tags_db, post_counter, comment_counter), the upload directory, the      *)
(* clock read by datetime.utcnow(), and the last HTTP response.            *)
(*                                                                         *)
(* A Python str is a sequence of one-character strings, so that strip(),   *)
(* lower() and substring search are computed, not assumed.  A field that   *)
(* holds None is recorded in the post's "nulls" set (its value slot then   *)
(* holds a placeholder that is never read).                                *)
(***************************************************************************)
EXTENDS Integers, Sequences, FiniteSets, TLC

VARIABLES posts_db, comments_db, tags_db, post_counter, comment_counter,
          files, now, resp, issued_posts, ever_comment, tasks, running

vars == <<posts_db, comments_db, tags_db, post_counter, comment_counter,
          files, now, resp, issued_posts, ever_comment, tasks, running>>

store == <<posts_db, comments_db, tags_db, post_counter, comment_counter>>

(* ------------------------------ bounds --------------------------------- *)
MaxPosts == 2
MaxComments == 2
MaxViews == 2
MaxTime == 1
MaxFiles == 1

(* --------------------------- Python strings ---------------------------- *)
IsSpace(c) == c \in {" ", "\t", "\n"}

LowerChar(c) ==
    CASE c = "G" -> "g"
      [] c = "H" -> "h"
      [] c = "P" -> "p"
      [] OTHER -> c

Lower(s) == [i \in DOMAIN s |-> LowerChar(s[i])]

RECURSIVE LStrip(_)
LStrip(s) ==
    IF s = <<>> THEN <<>>
    ELSE IF IsSpace(Head(s)) THEN LStrip(Tail(s)) ELSE s

RECURSIVE RStrip(_)
RStrip(s) ==
    IF s = <<>> THEN <<>>
    ELSE IF IsSpace(s[Len(s)]) THEN RStrip(SubSeq(s, 1, Len(s) - 1)) ELSE s

Strip(s) == RStrip(LStrip(s))

Contains(needle, hay) ==
    \E i \in 1..(Len(hay) - Len(needle) + 1) :
        SubSeq(hay, i, i + Len(needle) - 1) = needle

InList(x, list) == \E i \in DOMAIN list : list[i] = x

LowerAll(list) == [i \in DOMAIN list |-> Lower(list[i])]

SeqRange(list) == {list[i] : i \in DOMAIN list}

(* ------------------------------ values --------------------------------- *)
NoImage == 0

S_Hi == <<"H", "i">>
S_yo == <<"y", "o">>
S_blank == <<" ", "\t">>
S_empty == <<>>
S_x == <<"x">>
S_y == <<"y">>
S_Go == <<"G", "o">>
S_go == <<"g", "o">>
S_Py == <<"P", "y">>
S_bob == <<"b", "o", "b">>
S_al == <<"a", "l">>

UpdatableFields == {"title", "content", "tags", "published"}

(* ------------------------------ models --------------------------------- *)
TitleOk(v) == Strip(v) # <<>>

PostCreateOk_nostrip(title) == title # <<>>

PostCreateOk(title) == TitleOk(title)

AuthorMinLength == 3

AuthorOk(author) == Len(author) >= AuthorMinLength

PostOk(p) ==
    /\ p.nulls = {}
    /\ TitleOk(p.title)

ToPost(p) ==
    [id |-> p.id, author |-> p.author, image_url |-> p.image_url,
     views |-> p.views, created_at |-> p.created_at,
     updated_at |-> p.updated_at, title |-> p.title, content |-> p.content,
     tags |-> p.tags, published |-> p.published]

(* ------------------------------ helpers -------------------------------- *)
Found(post_id) == post_id \in DOMAIN posts_db

IncrementViews_all(db, post_id) ==
    [k \in DOMAIN db |-> [db[k] EXCEPT !.views = @ + 1]]

IncrementViews(db, post_id) ==
    IF post_id \in DOMAIN db
    THEN [db EXCEPT ![post_id].views = @ + 1]
    ELSE db

calculate_pagination(total, page, page_size) ==
    (total + page_size - 1) \div page_size

UtcNow == {t \in {now, now + 1} : t <= MaxTime}

Response(op, req, status, val) ==
    [op |-> op, req |-> req, status |-> status, val |-> val]

CreateReq(title, tags, author) ==
    [title |-> title, tags |-> tags, author |-> author]

UpdateReq(post_id, upd) == [post_id |-> post_id, upd |-> upd]

ListReq(page, page_size, tag, published, search) ==
    [page |-> page, page_size |-> page_size, tag |-> tag,
     published |-> published, search |-> search]

(* ------------------------------- Init ---------------------------------- *)
Init ==
    /\ posts_db = <<>>
    /\ comments_db = <<>>
    /\ tags_db = {}
    /\ post_counter = 0
    /\ comment_counter = 0
    /\ files = {}
    /\ now = 0
    /\ resp = Response("start", 0, 0, 0)
    /\ issued_posts = {}
    /\ ever_comment = <<>>
    /\ tasks = <<>>
    /\ running = 0

(* ---------------------------- create_post ------------------------------ *)
NextPostId_len == Cardinality(DOMAIN posts_db) + 1

NextPostId == post_counter + 1

RegisterTags_raw(tags) == tags_db \cup {tags[i] : i \in DOMAIN tags}

RegisterTags(tags) == tags_db \cup {Lower(tags[i]) : i \in DOMAIN tags}

CreatePostRejected(title, content, tags, published, author) ==
    /\ ~(PostCreateOk(title) /\ AuthorOk(author))
    /\ resp' = Response("create_post", CreateReq(title, tags, author), 422, 0)
    /\ UNCHANGED <<store, files, now, issued_posts, ever_comment, tasks, running>>

CreatePostAccepted(title, content, tags, published, author) ==
    /\ PostCreateOk(title) /\ AuthorOk(author)
    /\ post_counter < MaxPosts
    /\ \E t \in UtcNow :
         LET id == NextPostId
             post_data == [id |-> id, author |-> author,
                           image_url |-> NoImage, views |-> 0,
                           created_at |-> t, updated_at |-> t,
                           title |-> title, content |-> content,
                           tags |-> tags, published |-> published,
                           nulls |-> {}]
         IN /\ post_counter' = id
            /\ now' = t
            /\ tags_db' = RegisterTags(tags)
            /\ posts_db' = (id :> post_data) @@ posts_db
            /\ resp' = Response("create_post", CreateReq(title, tags, author),
                                201, ToPost(post_data))
            /\ issued_posts' = issued_posts \cup {id}
    /\ UNCHANGED <<comments_db, comment_counter, files, ever_comment, tasks, running>>

(* ------------------------------ get_post ------------------------------- *)
GetPostNotFound(post_id) ==
    /\ ~Found(post_id)
    /\ resp' = Response("get_post", post_id, 404, 0)
    /\ UNCHANGED <<store, files, now, issued_posts, ever_comment, tasks, running>>

GetPost(post_id) ==
    /\ Found(post_id)
    /\ posts_db[post_id].views < MaxViews
    /\ posts_db' = IncrementViews(posts_db, post_id)
    /\ resp' = IF PostOk(posts_db'[post_id])
               THEN Response("get_post", post_id, 200,
                             ToPost(posts_db'[post_id]))
               ELSE Response("get_post", post_id, 500, 0)
    /\ UNCHANGED <<comments_db, tags_db, post_counter, comment_counter,
                   files, now, issued_posts, ever_comment, tasks, running>>

(* ----------------------------- update_post ----------------------------- *)
Upd(set, nulls, title, content, tags, published) ==
    [set |-> set, nulls |-> nulls, title |-> title, content |-> content,
     tags |-> tags, published |-> published]

ApplyUpdate_full(post, upd) ==
    [post EXCEPT !.title = upd.title, !.content = upd.content,
                 !.tags = upd.tags, !.published = upd.published,
                 !.nulls = upd.nulls]

ApplyUpdate(post, upd) ==
    [post EXCEPT
       !.title = IF "title" \in upd.set THEN upd.title ELSE @,
       !.content = IF "content" \in upd.set THEN upd.content ELSE @,
       !.tags = IF "tags" \in upd.set THEN upd.tags ELSE @,
       !.published = IF "published" \in upd.set THEN upd.published ELSE @,
       !.nulls = (@ \ upd.set) \cup upd.nulls]

UpdateRegistersTags_replace(upd) ==
    IF "tags" \in upd.set
    THEN {Lower(upd.tags[i]) : i \in DOMAIN upd.tags}
    ELSE tags_db

UpdateRegistersTags(upd) ==
    IF "tags" \in upd.set THEN RegisterTags(upd.tags) ELSE tags_db

UpdatePostNotFound(post_id, upd) ==
    /\ ~Found(post_id)
    /\ resp' = Response("update_post", UpdateReq(post_id, upd), 404, 0)
    /\ UNCHANGED <<store, files, now, issued_posts, ever_comment, tasks, running>>

UpdatePostTagsNull(post_id, upd) ==
    /\ Found(post_id)
    /\ "tags" \in upd.nulls
    /\ resp' = Response("update_post", UpdateReq(post_id, upd), 500, 0)
    /\ UNCHANGED <<store, files, now, issued_posts, ever_comment, tasks, running>>

UpdatePost(post_id, upd) ==
    /\ Found(post_id)
    /\ "tags" \notin upd.nulls
    /\ \E t \in UtcNow :
         LET post == [ApplyUpdate(posts_db[post_id], upd)
                        EXCEPT !.updated_at = t]
         IN /\ tags_db' = UpdateRegistersTags(upd)
            /\ posts_db' = [posts_db EXCEPT ![post_id] = post]
            /\ now' = t
            /\ resp' = IF PostOk(post)
                       THEN Response("update_post", UpdateReq(post_id, upd),
                                     200, ToPost(post))
                       ELSE Response("update_post", UpdateReq(post_id, upd), 500, 0)
    /\ UNCHANGED <<comments_db, post_counter, comment_counter, files,
                   issued_posts, ever_comment, tasks, running>>

(* ----------------------------- delete_post ----------------------------- *)
Without(db, ids) == [k \in DOMAIN db \ ids |-> db[k]]

CommentsOf_first(db, post_id) ==
    {cid \in DOMAIN db :
        /\ db[cid].post_id = post_id
        /\ \A other \in DOMAIN db : db[other].post_id = post_id => cid <= other}

CommentsOf_none(db, post_id) == {}

CommentsOf(db, post_id) == {cid \in DOMAIN db : db[cid].post_id = post_id}

HasImageFile(post) == post.image_url # NoImage /\ post.image_url \in files

DeletePostNotFound(post_id) ==
    /\ ~Found(post_id)
    /\ resp' = Response("delete_post", post_id, 404, 0)
    /\ UNCHANGED <<store, files, now, issued_posts, ever_comment, tasks, running>>

DeletePostUnlinkFails(post_id) ==
    /\ Found(post_id)
    /\ HasImageFile(posts_db[post_id])
    /\ resp' = Response("delete_post", post_id, 500, 0)
    /\ UNCHANGED <<store, files, now, issued_posts, ever_comment, tasks, running>>

DeletePost(post_id) ==
    /\ Found(post_id)
    /\ files' = IF HasImageFile(posts_db[post_id])
                THEN files \ {posts_db[post_id].image_url}
                ELSE files
    /\ comments_db' = Without(comments_db, CommentsOf(comments_db, post_id))
    /\ posts_db' = Without(posts_db, {post_id})
    /\ resp' = Response("delete_post", post_id, 204, 0)
    /\ UNCHANGED <<tags_db, post_counter, comment_counter, now,
                   issued_posts, ever_comment, tasks, running>>

(* --------------------------- upload_post_image ------------------------- *)
UploadNotFound(post_id, ctype) ==
    /\ ~Found(post_id)
    /\ resp' = Response("upload_post_image", post_id, 404, 0)
    /\ UNCHANGED <<store, files, now, issued_posts, ever_comment, tasks, running>>

UploadRejected(post_id, ctype) ==
    /\ Found(post_id)
    /\ ctype # "image/png"
    /\ resp' = Response("upload_post_image", post_id,
                        IF ctype = "none" THEN 500 ELSE 400, 0)
    /\ UNCHANGED <<store, files, now, issued_posts, ever_comment, tasks, running>>

UploadPostImage(post_id, ctype) ==
    /\ Found(post_id)
    /\ ctype = "image/png"
    /\ \E unique_filename \in (1..MaxFiles) \ files, t \in UtcNow :
         /\ files' = files \cup {unique_filename}
         /\ posts_db' = [posts_db EXCEPT ![post_id].image_url = unique_filename,
                                         ![post_id].updated_at = t]
         /\ now' = t
         /\ resp' = Response("upload_post_image", post_id, 200,
                             unique_filename)
    /\ UNCHANGED <<comments_db, tags_db, post_counter, comment_counter,
                   issued_posts, ever_comment, tasks, running>>

(* ------------------------------ comments ------------------------------- *)
NextCommentId == comment_counter + 1

CreateCommentNotFound_counted(post_id, content, author) ==
    /\ ~Found(post_id)
    /\ comment_counter < MaxComments
    /\ comment_counter' = NextCommentId
    /\ resp' = Response("create_comment", post_id, 404, 0)
    /\ UNCHANGED <<posts_db, comments_db, tags_db, post_counter, files, now,
                   issued_posts, ever_comment, tasks, running>>

CreateCommentNotFound(post_id, content, author) ==
    /\ ~Found(post_id)
    /\ resp' = Response("create_comment", post_id, 404, 0)
    /\ UNCHANGED <<store, files, now, issued_posts, ever_comment, tasks, running>>

CreateComment_counting(post_id, content, author) ==
    /\ Found(post_id)
    /\ comment_counter < MaxComments
    /\ \E t \in UtcNow :
         LET id == NextCommentId
             comment_data == [id |-> id, post_id |-> post_id, created_at |-> t,
                              content |-> content, author |-> author]
         IN /\ comment_counter' = id
            /\ now' = t
            /\ comments_db' = (id :> comment_data) @@ comments_db
            /\ resp' = Response("create_comment", post_id, 201, comment_data)
            /\ ever_comment' = (id :> post_id) @@ ever_comment
    /\ posts_db' = IncrementViews(posts_db, post_id)
    /\ UNCHANGED <<tags_db, post_counter, files, issued_posts, tasks, running>>

CreateComment(post_id, content, author) ==
    /\ Found(post_id)
    /\ comment_counter < MaxComments
    /\ \E t \in UtcNow :
         LET id == NextCommentId
             comment_data == [id |-> id, post_id |-> post_id, created_at |-> t,
                              content |-> content, author |-> author]
         IN /\ comment_counter' = id
            /\ now' = t
            /\ comments_db' = (id :> comment_data) @@ comments_db
            /\ resp' = Response("create_comment", post_id, 201, comment_data)
            /\ ever_comment' = (id :> post_id) @@ ever_comment
    /\ UNCHANGED <<posts_db, tags_db, post_counter, files, issued_posts, tasks, running>>

RECURSIVE Values(_, _, _)
Values(db, k, last) ==
    IF k > last THEN <<>>
    ELSE IF k \in DOMAIN db THEN <<db[k]>> \o Values(db, k + 1, last)
    ELSE Values(db, k + 1, last)

InsertDesc_unstable(sorted, x) ==
    LET n == Cardinality({i \in DOMAIN sorted :
                             sorted[i].created_at > x.created_at})
    IN SubSeq(sorted, 1, n) \o <<x>> \o SubSeq(sorted, n + 1, Len(sorted))

InsertDesc(sorted, x) ==
    LET n == Cardinality({i \in DOMAIN sorted :
                             sorted[i].created_at >= x.created_at})
    IN SubSeq(sorted, 1, n) \o <<x>> \o SubSeq(sorted, n + 1, Len(sorted))

RECURSIVE SortDesc(_)
SortDesc(list) ==
    IF list = <<>> THEN <<>>
    ELSE InsertDesc(SortDesc(SubSeq(list, 1, Len(list) - 1)), list[Len(list)])

PostComments(post_id) ==
    SelectSeq(Values(comments_db, 1, comment_counter),
              LAMBDA c : c.post_id = post_id)

GetCommentsStatus(post_id) == IF Found(post_id) THEN 200 ELSE 404

GetComments(post_id) ==
    /\ resp' = IF GetCommentsStatus(post_id) = 200
               THEN Response("get_comments", post_id, 200,
                             SortDesc(PostComments(post_id)))
               ELSE Response("get_comments", post_id, 404, 0)
    /\ UNCHANGED <<store, files, now, issued_posts, ever_comment, tasks, running>>

DeleteCommentStatus(comment_id) ==
    IF comment_id \notin DOMAIN comments_db THEN 404 ELSE 204

DeleteCommentNotFound(comment_id) ==
    /\ DeleteCommentStatus(comment_id) = 404
    /\ resp' = Response("delete_comment", comment_id, 404, 0)
    /\ UNCHANGED <<store, files, now, issued_posts, ever_comment, tasks, running>>

DeleteComment(comment_id) ==
    /\ DeleteCommentStatus(comment_id) = 204
    /\ comments_db' = Without(comments_db, {comment_id})
    /\ resp' = Response("delete_comment", comment_id, 204, 0)
    /\ UNCHANGED <<posts_db, tags_db, post_counter, comment_counter, files,
                   now, issued_posts, ever_comment, tasks, running>>

(* ------------------------------ get_posts ------------------------------ *)
AllPosts == Values(posts_db, 1, post_counter)

TagMatches(p, tag) == InList(Lower(tag), LowerAll(p.tags))

SearchMatches(p, search) ==
    \/ Contains(Lower(search), Lower(p.title))
    \/ Contains(Lower(search), Lower(p.content))

ByTag(list, tag) ==
    IF tag # <<>> THEN SelectSeq(list, LAMBDA p : TagMatches(p, tag)) ELSE list

ByPublished(list, published) ==
    IF published # {}
    THEN SelectSeq(list, LAMBDA p : p.published \in published)
    ELSE list

BySearch(list, search) ==
    IF search # <<>>
    THEN SelectSeq(list, LAMBDA p : SearchMatches(p, search))
    ELSE list

FilterRaises(tag, published, search) ==
    \/ tag # <<>> /\ \E i \in DOMAIN AllPosts : "tags" \in AllPosts[i].nulls
    \/ /\ search # <<>>
       /\ LET list == ByPublished(ByTag(AllPosts, tag), published)
          IN \E i \in DOMAIN list :
               \/ "title" \in list[i].nulls
               \/ /\ ~Contains(Lower(search), Lower(list[i].title))
                  /\ "content" \in list[i].nulls

FilteredPosts(tag, published, search) ==
    SortDesc(BySearch(ByPublished(ByTag(AllPosts, tag), published), search))

Slice(list, start, end) ==
    SubSeq(list, start + 1, IF end < Len(list) THEN end ELSE Len(list))

PageOf(list, page, page_size) ==
    Slice(list, (page - 1) * page_size, (page - 1) * page_size + page_size)

ToPosts(list) == [i \in DOMAIN list |-> ToPost(list[i])]

GetPostsResult(page, page_size, tag, published, search) ==
    IF FilterRaises(tag, published, search)
    THEN Response("get_posts", ListReq(page, page_size, tag, published, search),
                  500, 0)
    ELSE LET filtered_posts == FilteredPosts(tag, published, search)
             total == Len(filtered_posts)
             paginated_posts == PageOf(filtered_posts, page, page_size)
         IN IF \E i \in DOMAIN paginated_posts : ~PostOk(paginated_posts[i])
            THEN Response("get_posts",
                          ListReq(page, page_size, tag, published, search),
                          500, 0)
            ELSE Response("get_posts",
                          ListReq(page, page_size, tag, published, search),
                          200,
                          [items |-> ToPosts(paginated_posts),
                           total |-> total,
                           page |-> page,
                           page_size |-> page_size,
                           total_pages |->
                               calculate_pagination(total, page, page_size)])

GetPosts(page, page_size, tag, published, search) ==
    /\ resp' = GetPostsResult(page, page_size, tag, published, search)
    /\ UNCHANGED <<store, files, now, issued_posts, ever_comment, tasks, running>>

(* -------------------------- get_posts_by_tag --------------------------- *)
GetPostsByTagResult(tag_name) ==
    IF \E i \in DOMAIN AllPosts : "tags" \in AllPosts[i].nulls
    THEN Response("get_posts_by_tag", tag_name, 500, 0)
    ELSE LET tag_posts ==
               SortDesc(SelectSeq(AllPosts, LAMBDA p : TagMatches(p, tag_name)))
         IN IF \E i \in DOMAIN tag_posts : ~PostOk(tag_posts[i])
            THEN Response("get_posts_by_tag", tag_name, 500, 0)
            ELSE Response("get_posts_by_tag", tag_name, 200, ToPosts(tag_posts))

GetPostsByTag(tag_name) ==
    /\ resp' = GetPostsByTagResult(tag_name)
    /\ UNCHANGED <<store, files, now, issued_posts, ever_comment, tasks, running>>

(* ------------------------------ get_tags ------------------------------- *)
Ord(c) ==
    CASE c = " " -> 32
      [] c = "G" -> 71
      [] c = "H" -> 72
      [] c = "P" -> 80
      [] c = "g" -> 103
      [] c = "h" -> 104
      [] c = "i" -> 105
      [] c = "o" -> 111
      [] c = "p" -> 112
      [] c = "x" -> 120
      [] c = "y" -> 121
      [] OTHER -> 97

RECURSIVE StrLess(_, _)
StrLess(a, b) ==
    IF b = <<>> THEN FALSE
    ELSE IF a = <<>> THEN TRUE
    ELSE IF Ord(Head(a)) # Ord(Head(b)) THEN Ord(Head(a)) < Ord(Head(b))
    ELSE StrLess(Tail(a), Tail(b))

RECURSIVE Sorted_desc(_)
Sorted_desc(set) ==
    IF set = {} THEN <<>>
    ELSE LET greatest == CHOOSE x \in set :
                           \A y \in set \ {x} : StrLess(y, x)
         IN <<greatest>> \o Sorted_desc(set \ {greatest})

RECURSIVE Sorted(_)
Sorted(set) ==
    IF set = {} THEN <<>>
    ELSE LET least == CHOOSE x \in set :
                        \A y \in set \ {x} : StrLess(x, y)
         IN <<least>> \o Sorted(set \ {least})

TagList == Sorted(tags_db)

GetTags ==
    /\ resp' = Response("get_tags", 0, 200, TagList)
    /\ UNCHANGED <<store, files, now, issued_posts, ever_comment, tasks, running>>

(* ------------------------------ get_stats ------------------------------ *)
PopularLimit == 5

Truthy(p) == "published" \notin p.nulls /\ p.published

SumViews_len(list) == Len(list)

RECURSIVE SumViews(_)
SumViews(list) ==
    IF list = <<>> THEN 0 ELSE Head(list).views + SumViews(Tail(list))

RECURSIVE TagOccurrences(_)
TagOccurrences(list) ==
    IF list = <<>> THEN <<>>
    ELSE Head(list).tags \o TagOccurrences(Tail(list))

RECURSIVE CountTags(_, _)
CountTags(occ, tag_counts) ==
    IF occ = <<>> THEN tag_counts
    ELSE LET tag == Head(occ)
             seen == {i \in DOMAIN tag_counts : tag_counts[i].tag = tag}
         IN CountTags(Tail(occ),
               IF seen = {}
               THEN Append(tag_counts, [tag |-> tag, count |-> 1])
               ELSE [i \in DOMAIN tag_counts |->
                       IF i \in seen
                       THEN [tag_counts[i] EXCEPT !.count = @ + 1]
                       ELSE tag_counts[i]])

InsertByCount(sorted, x) ==
    LET n == Cardinality({i \in DOMAIN sorted : sorted[i].count >= x.count})
    IN SubSeq(sorted, 1, n) \o <<x>> \o SubSeq(sorted, n + 1, Len(sorted))

RECURSIVE SortByCount(_)
SortByCount(list) ==
    IF list = <<>> THEN <<>>
    ELSE InsertByCount(SortByCount(SubSeq(list, 1, Len(list) - 1)),
                       list[Len(list)])

PopularTags_lower(list) ==
    Slice(SortByCount(CountTags(LowerAll(TagOccurrences(list)), <<>>)),
          0, PopularLimit)

PopularTags(list) ==
    Slice(SortByCount(CountTags(TagOccurrences(list), <<>>)), 0, PopularLimit)

StatsRaises == \E i \in DOMAIN AllPosts : "tags" \in AllPosts[i].nulls

StatsResult ==
    IF StatsRaises THEN Response("get_stats", 0, 500, 0)
    ELSE Response("get_stats", 0, 200,
           [total_posts |-> Len(AllPosts),
            published_posts |-> Len(SelectSeq(AllPosts, Truthy)),
            draft_posts |-> Len(SelectSeq(AllPosts, LAMBDA p : ~Truthy(p))),
            total_views |-> SumViews(AllPosts),
            total_comments |-> Cardinality(DOMAIN comments_db),
            popular_tags |-> PopularTags(AllPosts)])

GetStats ==
    /\ resp' = StatsResult
    /\ UNCHANGED <<store, files, now, issued_posts, ever_comment, tasks, running>>

(* -------------------------------- inputs ------------------------------- *)
PostIds == 1..MaxPosts

CommentIds == 1..MaxComments

Titles == {S_Hi, S_blank, S_empty}

Authors == {S_bob, S_al}

TagLists == {<<S_Go, S_go>>}

ContentTypes == {"image/png", "text/plain", "none"}

Updates ==
    { Upd({}, {}, <<>>, <<>>, <<>>, FALSE),
      Upd({"title"}, {}, S_yo, <<>>, <<>>, FALSE),
      Upd({"title"}, {}, S_blank, <<>>, <<>>, FALSE),
      Upd({"content"}, {}, <<>>, S_y, <<>>, FALSE),
      Upd({"tags"}, {}, <<>>, <<>>, <<S_Py>>, FALSE),
      Upd({"published"}, {}, <<>>, <<>>, <<>>, TRUE),
      Upd({"tags"}, {"tags"}, <<>>, <<>>, <<>>, FALSE) }

Pages == 1..3

PageSizes == 1..2

CreatePostStep ==
    \E title \in Titles, tags \in TagLists, author \in Authors :
       \/ CreatePostRejected(title, S_x, tags, FALSE, author)
       \/ CreatePostAccepted(title, S_x, tags, FALSE, author)

GetPostStep ==
    \E post_id \in PostIds : GetPostNotFound(post_id) \/ GetPost(post_id)

DeletePostStep ==
    \E post_id \in PostIds :
       \/ DeletePostNotFound(post_id)
       \/ DeletePostUnlinkFails(post_id)
       \/ DeletePost(post_id)

UploadStep ==
    \E post_id \in PostIds, ctype \in ContentTypes :
       \/ UploadNotFound(post_id, ctype)
       \/ UploadRejected(post_id, ctype)
       \/ UploadPostImage(post_id, ctype)

CommentStep ==
    \/ \E post_id \in PostIds :
         \/ GetComments(post_id)
         \/ CreateCommentNotFound(post_id, S_x, S_bob)
         \/ CreateComment(post_id, S_x, S_bob)
    \/ \E comment_id \in CommentIds :
         \/ DeleteCommentNotFound(comment_id)
         \/ DeleteComment(comment_id)

UpdatePostStep ==
    \E post_id \in PostIds, upd \in Updates :
       \/ UpdatePostNotFound(post_id, upd)
       \/ UpdatePostTagsNull(post_id, upd)
       \/ UpdatePost(post_id, upd)

GetPostsStep ==
    \E page \in Pages, page_size \in PageSizes :
       GetPosts(page, page_size, <<>>, {}, <<>>)

Next ==
    \/ CreatePostStep
    \/ GetPostStep
    \/ DeletePostStep
    \/ UploadStep
    \/ CommentStep

Spec == Init /\ [][Next]_vars

DeletePlainPostStep ==
    \E post_id \in PostIds : DeletePostNotFound(post_id) \/ DeletePost(post_id)

NextEdit ==
    \/ CreatePostStep
    \/ UpdatePostStep
    \/ DeletePlainPostStep
    \/ GetPostsStep
    \/ GetTags

SpecEdit == Init /\ [][NextEdit]_vars

S_a == <<"a">>
S_b == <<"b">>
S_c == <<"c">>
S_d == <<"d">>
S_e == <<"e">>
S_f == <<"f">>

StatsTagLists ==
    {<<S_a, S_b, S_c, S_d, S_e, S_f>>, <<S_f, S_Go, S_go, S_a, S_b, S_c>>}

CreateAnyPostStep ==
    \E title \in Titles, tags \in StatsTagLists, published \in BOOLEAN :
       \/ CreatePostRejected(title, S_x, tags, published, S_bob)
       \/ CreatePostAccepted(title, S_x, tags, published, S_bob)

NextStats ==
    \/ CreateAnyPostStep
    \/ GetPostStep
    \/ DeletePlainPostStep
    \/ CommentStep
    \/ GetStats

SpecStats == Init /\ [][NextStats]_vars

LookupUpdates ==
    { Upd({"tags"}, {}, <<>>, <<>>, <<S_Py>>, FALSE),
      Upd({"tags"}, {"tags"}, <<>>, <<>>, <<>>, FALSE) }

UpdateTagsStep ==
    \E post_id \in PostIds, upd \in LookupUpdates :
       \/ UpdatePostNotFound(post_id, upd)
       \/ UpdatePostTagsNull(post_id, upd)
       \/ UpdatePost(post_id, upd)

NextFull ==
    \/ CreatePostStep
    \/ GetPostStep
    \/ UpdateTagsStep
    \/ DeletePostStep
    \/ UploadStep
    \/ CommentStep

SpecFull == Init /\ [][NextFull]_vars

NullUpdates ==
    { Upd({"title"}, {"title"}, <<>>, <<>>, <<>>, FALSE),
      Upd({"content"}, {"content"}, <<>>, <<>>, <<>>, FALSE),
      Upd({"published"}, {"published"}, <<>>, <<>>, <<>>, FALSE),
      Upd({"tags"}, {"tags"}, <<>>, <<>>, <<>>, FALSE),
      Upd({"published"}, {}, <<>>, <<>>, <<>>, TRUE) }

UpdateNullStep ==
    \E post_id \in PostIds, upd \in NullUpdates :
       \/ UpdatePostNotFound(post_id, upd)
       \/ UpdatePostTagsNull(post_id, upd)
       \/ UpdatePost(post_id, upd)

GetPostsSearchStep ==
    \E search \in {<<>>, <<"h">>} : GetPosts(1, MaxPosts, <<>>, {}, search)

GetPostsByTagStep == \E tag_name \in {S_go, S_Py} : GetPostsByTag(tag_name)

NextNull ==
    \/ CreatePostStep
    \/ UpdateNullStep
    \/ GetPostStep
    \/ GetPostsSearchStep
    \/ GetPostsByTagStep

SpecNull == Init /\ [][NextNull]_vars

(* ------------------- requests in flight on the event loop -------------- *)
(* Every handler is a coroutine run by one event loop: a task that has the *)
(* loop keeps it until it awaits or returns.  tasks holds the requests in  *)
(* arrival order, running the task that has the loop (0 when none has).    *)
MaxTasks == 4

AwaitPoints_between == {"counted", "found", "read"}

AwaitPoints == {}

Task(op, arg) ==
    [op |-> op, arg |-> arg, pc |-> "start", local |-> 0, status |-> 0,
     result |-> 0, seen |-> {t \in DOMAIN tasks : tasks[t].pc # "done"}]

TasksOf(op) == {t \in DOMAIN tasks : tasks[t].op = op}

Arrive(op, arg) ==
    /\ Len(tasks) < MaxTasks
    /\ op = "create_post" => Cardinality(TasksOf(op)) < MaxPosts
    /\ op = "create_comment" => Cardinality(TasksOf(op)) < MaxComments
    /\ op = "get_post" => Cardinality(TasksOf(op)) < MaxViews
    /\ tasks' = Append(tasks, Task(op, arg))
    /\ UNCHANGED <<store, files, now, resp, issued_posts, ever_comment,
                   running>>

At(t, op, pc) ==
    /\ t \in DOMAIN tasks
    /\ tasks[t].op = op /\ tasks[t].pc = pc
    /\ running \in {0, t}

Goto(t, pc, local) ==
    /\ tasks' = [tasks EXCEPT ![t].pc = pc, ![t].local = local]
    /\ running' = IF pc \in AwaitPoints THEN 0 ELSE t

Return(t, status, result) ==
    /\ tasks' = [tasks EXCEPT ![t].pc = "done", ![t].status = status,
                              ![t].result = result]
    /\ running' = 0

CreatePostCount(t) ==
    /\ At(t, "create_post", "start")
    /\ post_counter' = post_counter + 1
    /\ Goto(t, "counted", 0)
    /\ UNCHANGED <<posts_db, comments_db, tags_db, comment_counter, files,
                   now, resp, issued_posts, ever_comment>>

CreatePostInsert(t) ==
    /\ At(t, "create_post", "counted")
    /\ \E time \in UtcNow :
         LET post_data == [id |-> post_counter, author |-> S_bob,
                           image_url |-> NoImage, views |-> 0,
                           created_at |-> time, updated_at |-> time,
                           title |-> S_Hi, content |-> S_x,
                           tags |-> <<S_Go>>, published |-> TRUE,
                           nulls |-> {}]
         IN /\ now' = time
            /\ tags_db' = RegisterTags(<<S_Go>>)
            /\ posts_db' = (post_counter :> post_data) @@ posts_db
            /\ resp' = Response("create_post",
                                CreateReq(S_Hi, <<S_Go>>, S_bob), 201,
                                ToPost(post_data))
            /\ issued_posts' = issued_posts \cup {post_counter}
            /\ Return(t, 201, post_counter)
    /\ UNCHANGED <<comments_db, post_counter, comment_counter, files,
                   ever_comment>>

GetPostLookup(t) ==
    /\ At(t, "get_post", "start")
    /\ IF Found(tasks[t].arg)
       THEN Goto(t, "found", 0) /\ UNCHANGED resp
       ELSE /\ Return(t, 404, 0)
            /\ resp' = Response("get_post", tasks[t].arg, 404, 0)
    /\ UNCHANGED <<store, files, now, issued_posts, ever_comment>>

GetPostReadViews(t) ==
    /\ At(t, "get_post", "found")
    /\ Goto(t, "read", posts_db[tasks[t].arg].views)
    /\ UNCHANGED <<store, files, now, resp, issued_posts, ever_comment>>

GetPostWriteViews(t) ==
    /\ At(t, "get_post", "read")
    /\ posts_db' = [posts_db EXCEPT ![tasks[t].arg].views = tasks[t].local + 1]
    /\ resp' = Response("get_post", tasks[t].arg, 200,
                        ToPost(posts_db'[tasks[t].arg]))
    /\ Return(t, 200, tasks[t].local + 1)
    /\ UNCHANGED <<comments_db, tags_db, post_counter, comment_counter,
                   files, now, issued_posts, ever_comment>>

CreateCommentLookup(t) ==
    /\ At(t, "create_comment", "start")
    /\ IF Found(tasks[t].arg)
       THEN Goto(t, "found", 0) /\ UNCHANGED resp
       ELSE /\ Return(t, 404, 0)
            /\ resp' = Response("create_comment", tasks[t].arg, 404, 0)
    /\ UNCHANGED <<store, files, now, issued_posts, ever_comment>>

CreateCommentCount(t) ==
    /\ At(t, "create_comment", "found")
    /\ comment_counter' = comment_counter + 1
    /\ Goto(t, "counted", 0)
    /\ UNCHANGED <<posts_db, comments_db, tags_db, post_counter, files,
                   now, resp, issued_posts, ever_comment>>

CreateCommentInsert(t) ==
    /\ At(t, "create_comment", "counted")
    /\ \E time \in UtcNow :
         LET comment_data == [id |-> comment_counter,
                              post_id |-> tasks[t].arg, created_at |-> time,
                              content |-> S_yo, author |-> S_al]
         IN /\ now' = time
            /\ comments_db' = (comment_counter :> comment_data) @@ comments_db
            /\ resp' = Response("create_comment", tasks[t].arg, 201,
                                comment_data)
            /\ ever_comment' = (comment_counter :> tasks[t].arg) @@ ever_comment
            /\ Return(t, 201, comment_counter)
    /\ UNCHANGED <<posts_db, tags_db, post_counter, comment_counter, files,
                   issued_posts>>

ArriveStep ==
    \/ Arrive("create_post", 0)
    \/ Arrive("get_post", 1)
    \/ Arrive("create_comment", 1)

RunStep ==
    \E t \in 1..MaxTasks :
       \/ CreatePostCount(t)
       \/ CreatePostInsert(t)
       \/ GetPostLookup(t)
       \/ GetPostReadViews(t)
       \/ GetPostWriteViews(t)
       \/ CreateCommentLookup(t)
       \/ CreateCommentCount(t)
       \/ CreateCommentInsert(t)

NextAsync == ArriveStep \/ RunStep

SpecAsync == Init /\ [][NextAsync]_vars

(* ======================= properties of the store ======================= *)

(* C1: once delete_post(p) has succeeded, no comment with post_id = p is   *)
(* left in comments_db, get_comments(p) answers 404, and delete_comment on *)
(* the id of any comment that ever belonged to p answers 404.              *)
C1_CascadeDelete ==
    \A p \in issued_posts \ DOMAIN posts_db :
       /\ \A cid \in DOMAIN comments_db : comments_db[cid].post_id # p
       /\ GetCommentsStatus(p) = 404
       /\ \A cid \in DOMAIN ever_comment :
            ever_comment[cid] = p => DeleteCommentStatus(cid) = 404

C1_Witness ==
    /\ resp.op = "delete_post" /\ resp.status = 204
    /\ Cardinality({cid \in DOMAIN ever_comment :
                       ever_comment[cid] = resp.req}) >= 2
    /\ posts_db # <<>>

(* C2: delete_post on an existing post always completes: it answers 204    *)
(* and the post is gone, also when unlinking the image file fails.         *)
C2_DeleteAlwaysCompletes ==
    (resp.op = "delete_post" /\ resp.status # 404) =>
        /\ resp.status = 204
        /\ resp.req \notin DOMAIN posts_db
        /\ \A cid \in DOMAIN comments_db : comments_db[cid].post_id # resp.req

(* C3: the two counters never decrease, and every successful create hands  *)
(* out an id strictly greater than every id of its kind handed out before, *)
(* deleted or not.                                                         *)
C3_IdsNeverReused ==
    [][ /\ post_counter' >= post_counter
        /\ comment_counter' >= comment_counter
        /\ (resp'.op = "create_post" /\ resp'.status = 201
              /\ posts_db' # posts_db) =>
               /\ \A m \in issued_posts : resp'.val.id > m
               /\ resp'.val.id \in DOMAIN posts_db'
        /\ (resp'.op = "create_comment" /\ resp'.status = 201
              /\ comments_db' # comments_db) =>
               /\ \A m \in DOMAIN ever_comment : resp'.val.id > m
               /\ resp'.val.id \in DOMAIN comments_db' ]_vars

C3_Witness ==
    /\ resp.op = "create_post" /\ resp.status = 201
    /\ \E m \in issued_posts : m \notin DOMAIN posts_db /\ m < resp.val.id
    /\ \E c \in DOMAIN ever_comment : c \notin DOMAIN comments_db

(* C4: a successful get_post raises the views of the post it reads by      *)
(* exactly one, returns the post with the raised count, and changes        *)
(* nothing else in the store.                                              *)
C4_GetPostCountsOneView ==
    [][ (resp'.op = "get_post" /\ resp'.status = 200) =>
           /\ resp'.req \in DOMAIN posts_db
           /\ posts_db' = [posts_db EXCEPT ![resp'.req].views = @ + 1]
           /\ resp'.val.views = posts_db[resp'.req].views + 1
           /\ resp'.val.id = resp'.req
           /\ UNCHANGED <<comments_db, tags_db, post_counter,
                          comment_counter, files, now>> ]_vars

C4_Witness ==
    /\ resp.op = "get_post" /\ resp.status = 200
    /\ resp.val.views = 2
    /\ Cardinality(DOMAIN posts_db) = 2
    /\ comments_db # <<>>

(* C5: create_post with an empty or whitespace-only title is never         *)
(* accepted, and a rejected create_post leaves posts, comments, the tag    *)
(* registry and both counters as they were.                                *)
C5_BlankTitleRejected ==
    [][ /\ (resp'.op = "create_post" /\ resp'.status = 201) =>
              Strip(resp'.req.title) # <<>>
        /\ (resp'.op = "create_post" /\ Strip(resp'.req.title) = <<>>) =>
              /\ resp'.status = 422
              /\ UNCHANGED <<posts_db, comments_db, tags_db, post_counter,
                             comment_counter, files>> ]_vars

C5_Witness ==
    /\ resp.op = "create_post" /\ resp.status = 422
    /\ resp.req.title = S_blank
    /\ resp.req.tags # <<>>
    /\ AuthorOk(resp.req.author)
    /\ tags_db = {} /\ post_counter = 0
(* C6: every stored post has a title that is neither empty nor made of     *)
(* whitespace only.                                                        *)
C6_TitlesNeverBlank ==
    \A p \in DOMAIN posts_db :
       /\ "title" \notin posts_db[p].nulls
       /\ Strip(posts_db[p].title) # <<>>

(* C7: update_post leaves every field the request omits, and id, author,   *)
(* views, image_url and created_at, as they were, and touches no other     *)
(* post; a successful update stores exactly the supplied values, sets      *)
(* updated_at to the time of the call and returns the stored post.         *)
C7_PartialUpdate ==
    [][ (resp'.op = "update_post" /\ resp'.status # 404) =>
          LET id == resp'.req.post_id
              upd == resp'.req.upd
          IN /\ id \in DOMAIN posts_db /\ DOMAIN posts_db' = DOMAIN posts_db
             /\ \A k \in DOMAIN posts_db \ {id} : posts_db'[k] = posts_db[k]
             /\ \A f \in UpdatableFields \ upd.set :
                  /\ posts_db'[id][f] = posts_db[id][f]
                  /\ (f \in posts_db'[id].nulls) = (f \in posts_db[id].nulls)
             /\ \A f \in {"id", "author", "views", "image_url", "created_at"} :
                  posts_db'[id][f] = posts_db[id][f]
             /\ resp'.status = 200 =>
                  /\ \A f \in upd.set : posts_db'[id][f] = upd[f]
                  /\ posts_db'[id].updated_at = now'
                  /\ now' >= now
                  /\ resp'.val = ToPost(posts_db'[id]) ]_vars

C7_Witness ==
    /\ resp.op = "update_post" /\ resp.status = 200
    /\ resp.req.upd.set = {"published"}
    /\ resp.val.published = TRUE
    /\ resp.val.content = S_y
    /\ resp.val.title = S_yo
    /\ resp.val.tags = <<S_Py>>
    /\ resp.val.updated_at > resp.val.created_at

CeilDiv(t, s) == CHOOSE k \in 0..t : k * s >= t /\ (k - 1) * s < t

PublishedFilters == {{}, {TRUE}, {FALSE}}

Matching(published) ==
    {k \in DOMAIN posts_db :
        published = {} \/ posts_db[k].published \in published}

RECURSIVE ItemsUpTo(_, _, _)
ItemsUpTo(page, page_size, published) ==
    IF page = 0 THEN <<>>
    ELSE ItemsUpTo(page - 1, page_size, published)
           \o GetPostsResult(page, page_size, <<>>, published, <<>>).val.items

PagesPartition(page_size, published) ==
    LET T == Cardinality(Matching(published))
        pages == CeilDiv(T, page_size)
        all == ItemsUpTo(pages, page_size, published)
        R(page) == GetPostsResult(page, page_size, <<>>, published, <<>>)
    IN /\ \A page \in 1..(pages + 1) :
            /\ R(page).status = 200
            /\ R(page).val.total = T
            /\ R(page).val.total_pages = pages
       /\ \A page \in 1..(pages - 1) : Len(R(page).val.items) = page_size
       /\ Len(all) = T
       /\ SeqRange(all) = {ToPost(posts_db[k]) : k \in Matching(published)}
       /\ R(pages + 1).val.items = <<>>

(* C8: for every page size and filter, the pages 1..ceil(T/S) of get_posts *)
(* together hold exactly the T matching posts, each once, total_pages is   *)
(* ceil(T/S), and page ceil(T/S)+1 is an empty page with the same totals   *)
(* and no error.                                                           *)
C8_PagesPartitionFiltered ==
    \A page_size \in PageSizes, published \in PublishedFilters :
       PagesPartition(page_size, published)

(* The same statement on a store whose posts all pass the Post model, and  *)
(* the 12-post scenario of the pagination arithmetic.                      *)
PaginationOnValidStore ==
    /\ (\A k \in DOMAIN posts_db : PostOk(posts_db[k])) =>
           C8_PagesPartitionFiltered
    /\ calculate_pagination(12, 2, 10) = 2
    /\ PageOf([i \in 1..12 |-> i], 2, 10) = <<11, 12>>
    /\ PageOf([i \in 1..12 |-> i], 3, 10) = <<>>

(* C9: the tag registry never loses a tag, and get_tags lists every tag    *)
(* that was ever registered.                                               *)
C9_RegistryNeverShrinks ==
    [][ /\ tags_db \subseteq tags_db'
        /\ tags_db \subseteq SeqRange(Sorted(tags_db')) ]_vars

C9_Witness ==
    /\ resp.op = "get_tags" /\ resp.status = 200
    /\ InList(S_go, resp.val) /\ InList(Lower(S_Py), resp.val)
    /\ issued_posts # {}
    /\ \A p \in DOMAIN posts_db :
         "tags" \notin posts_db[p].nulls /\ posts_db[p].tags = <<S_Py>>
    /\ Cardinality(DOMAIN posts_db) = 1

(* C10: for every stored post, the lowercase form of each of its tags is   *)
(* in the tag registry.                                                    *)
C10_PostTagsRegistered ==
    \A p \in DOMAIN posts_db :
       "tags" \notin posts_db[p].nulls =>
          \A i \in DOMAIN posts_db[p].tags :
             Lower(posts_db[p].tags[i]) \in tags_db

C10_Witness ==
    /\ resp.op = "update_post" /\ resp.status = 200
    /\ resp.val.tags = <<S_Py>>
    /\ Lower(S_Py) \in tags_db /\ S_Py \notin tags_db
    /\ \E p \in DOMAIN posts_db : posts_db[p].tags = <<S_Go, S_go>>
RECURSIVE ViewsOf(_)
ViewsOf(ids) ==
    IF ids = {} THEN 0
    ELSE LET k == CHOOSE k \in ids : TRUE
         IN posts_db[k].views + ViewsOf(ids \ {k})

(* C11: get_stats reports published_posts + draft_posts = total_posts =    *)
(* the number of stored posts, total_views = the sum of their views,       *)
(* total_comments = the number of stored comments, and changes no state.   *)
C11_StatsTotals ==
    [][ resp'.op = "get_stats" =>
          /\ resp'.status = 200
          /\ resp'.val.total_posts = Cardinality(DOMAIN posts_db)
          /\ resp'.val.published_posts + resp'.val.draft_posts
               = resp'.val.total_posts
          /\ resp'.val.published_posts
               = Cardinality({k \in DOMAIN posts_db : posts_db[k].published})
          /\ resp'.val.total_views = ViewsOf(DOMAIN posts_db)
          /\ resp'.val.total_comments = Cardinality(DOMAIN comments_db)
          /\ UNCHANGED <<store, files, now>> ]_vars

C11_Witness ==
    /\ resp.op = "get_stats" /\ resp.status = 200
    /\ resp.val.published_posts = 1 /\ resp.val.draft_posts = 1
    /\ resp.val.total_views = 3
    /\ resp.val.total_comments = 2

TagSlots ==
    UNION {{<<k, i>> : i \in DOMAIN posts_db[k].tags} : k \in DOMAIN posts_db}

AttachedTags == {posts_db[sl[1]].tags[sl[2]] : sl \in TagSlots}

Occurrences(tag) ==
    Cardinality({sl \in TagSlots : posts_db[sl[1]].tags[sl[2]] = tag})

OccurrencesAnyCase(tag) ==
    Cardinality({sl \in TagSlots :
                    Lower(posts_db[sl[1]].tags[sl[2]]) = Lower(tag)})

Min(a, b) == IF a < b THEN a ELSE b

PopularShape(popular, Count(_), Key(_)) ==
    /\ Len(popular) = Min(5, Cardinality({Key(t) : t \in AttachedTags}))
    /\ \A i, j \in DOMAIN popular :
         /\ i < j => popular[i].count >= popular[j].count
         /\ i # j => Key(popular[i].tag) # Key(popular[j].tag)
    /\ \A i \in DOMAIN popular :
         /\ popular[i].tag \in AttachedTags
         /\ popular[i].count = Count(popular[i].tag)
         /\ \A t \in AttachedTags :
              (\A j \in DOMAIN popular : Key(popular[j].tag) # Key(t))
                 => Count(t) <= popular[i].count

Same(tag) == tag

(* C18 as amended: popular_tags holds at most 5 entries in non-increasing  *)
(* order of count; each count is the number of occurrences of exactly that *)
(* tag string, as stored, in the tag lists of the stored posts; tags that  *)
(* differ in letter case are different entries; no tag left out has a      *)
(* count strictly greater than a listed one.                               *)
C18_PopularTagsAsStored ==
    /\ StatsResult.status = 200
    /\ PopularShape(StatsResult.val.popular_tags, Occurrences, Same)

C18_Witness ==
    /\ resp.op = "get_stats" /\ resp.status = 200
    /\ Len(resp.val.popular_tags) = 5
    /\ \E i, j \in DOMAIN resp.val.popular_tags :
         /\ resp.val.popular_tags[i].tag = S_Go
         /\ resp.val.popular_tags[j].tag = S_go
    /\ \E t \in AttachedTags :
         \A i \in DOMAIN resp.val.popular_tags : resp.val.popular_tags[i].tag # t

(* C18 as claimed: the same, with tags that differ only in letter case     *)
(* counted as one tag.                                                     *)
C18_PopularTagsCaseInsensitive ==
    /\ StatsResult.status = 200
    /\ PopularShape(StatsResult.val.popular_tags, OccurrencesAnyCase, Lower)
PostOps ==
    {"get_post", "delete_post", "upload_post_image", "create_comment",
     "get_comments"}

AddressedPost(r) == IF r.op = "update_post" THEN r.req.post_id ELSE r.req

(* C12: get_post, update_post, delete_post, upload_post_image,             *)
(* create_comment and get_comments on a post id that is not in the store,  *)
(* and delete_comment on a comment id that is not in the store, answer 404 *)
(* and leave posts, comments, tag registry, counters and files unchanged.  *)
C12_UnknownIdNotFound ==
    [][ /\ (resp'.op \in PostOps \cup {"update_post"}
              /\ AddressedPost(resp') \notin DOMAIN posts_db) =>
               /\ resp'.status = 404
               /\ UNCHANGED <<store, files, now>>
        /\ (resp'.op = "delete_comment"
              /\ resp'.req \notin DOMAIN comments_db) =>
               /\ resp'.status = 404
               /\ UNCHANGED <<store, files, now>> ]_vars

C12_Witness ==
    /\ resp.op = "update_post" /\ resp.status = 404
    /\ resp.req.upd.tags = <<S_Py>>
    /\ resp.req.post_id \in issued_posts
    /\ Lower(S_Py) \notin tags_db
    /\ posts_db # <<>> /\ comments_db # <<>>

LookupOps ==
    {"update_post", "delete_post", "upload_post_image", "create_comment",
     "get_comments"}

(* C17 as amended: the lookup through get_post_or_404 made by update_post, *)
(* delete_post, upload_post_image, create_comment and get_comments does    *)
(* not change any view count; only get_post counts a view.                 *)
C17_LookupsCountNoView ==
    [][ /\ resp'.op \in LookupOps =>
             \A k \in DOMAIN posts_db \cap DOMAIN posts_db' :
                posts_db'[k].views = posts_db[k].views
        /\ (resp'.op = "get_post" /\ resp'.status # 404) =>
             posts_db'[resp'.req].views = posts_db[resp'.req].views + 1 ]_vars

C17_Witness ==
    /\ resp.op = "get_comments" /\ resp.status = 200
    /\ Len(resp.val) >= 1
    /\ posts_db[resp.req].views = 0
    /\ posts_db[resp.req].image_url # NoImage
    /\ posts_db[resp.req].tags = <<S_Py>>

(* C17 as claimed: every lookup of an existing post by update_post,        *)
(* delete_post, upload_post_image, create_comment or get_comments raises   *)
(* that post's view count by one.                                          *)
C17_LookupsCountAView ==
    [][ (resp'.op \in LookupOps /\ resp'.status # 404
           /\ AddressedPost(resp') \in DOMAIN posts_db') =>
          posts_db'[AddressedPost(resp')].views
             = posts_db[AddressedPost(resp')].views + 1 ]_vars
(* C13: a successful create_post adds to the tag registry exactly the      *)
(* lowercase forms of its tags (["Go", "go"] on an empty registry leaves   *)
(* {"go"}); every registry entry is lowercase; get_tags returns the        *)
(* registry in strictly ascending order, each entry once.                  *)
C13_RegistryHoldsLowercase ==
    [][ /\ (resp'.op = "create_post" /\ resp'.status = 201) =>
             /\ tags_db' = tags_db \cup
                   {Lower(resp'.req.tags[i]) : i \in DOMAIN resp'.req.tags}
             /\ (tags_db = {} /\ resp'.req.tags = <<S_Go, S_go>>) =>
                   (tags_db' = {S_go} /\ Sorted(tags_db') = <<S_go>>)
        /\ \A t \in tags_db' : \A i \in DOMAIN t : LowerChar(t[i]) = t[i]
        /\ resp'.op = "get_tags" =>
             /\ resp'.status = 200
             /\ SeqRange(resp'.val) = tags_db
             /\ Len(resp'.val) = Cardinality(tags_db)
             /\ \A i, j \in DOMAIN resp'.val :
                  i < j => StrLess(resp'.val[i], resp'.val[j]) ]_vars

C13_Witness ==
    /\ resp.op = "get_tags" /\ resp.status = 200
    /\ resp.val = <<S_go, Lower(S_Py)>>
    /\ \E p \in DOMAIN posts_db : posts_db[p].tags = <<S_Go, S_go>>

(* C14: every stored comment has a post_id that is the id of a stored      *)
(* post.                                                                   *)
C14_CommentsHaveParent ==
    \A cid \in DOMAIN comments_db :
       /\ comments_db[cid].post_id \in DOMAIN posts_db
       /\ comments_db[cid].id = cid

C14_Witness ==
    /\ resp.op = "delete_post" /\ resp.status = 204
    /\ \E cid \in DOMAIN ever_comment : ever_comment[cid] = resp.req
    /\ comments_db # <<>>
S_gO == <<"g", "O">>
S_h == <<"h">>

TagFilters == {<<>>, S_gO, S_Py}

SearchFilters == {<<>>, S_h, S_y}

Satisfies(k, tag, published, search) ==
    /\ tag = <<>> \/ \E i \in DOMAIN posts_db[k].tags :
                        Lower(posts_db[k].tags[i]) = Lower(tag)
    /\ published = {} \/ posts_db[k].published \in published
    /\ search = <<>> \/ Contains(Lower(search), Lower(posts_db[k].title))
                     \/ Contains(Lower(search), Lower(posts_db[k].content))

(* C15: get_posts returns as total the number of stored posts that satisfy *)
(* all supplied filters (tag, published, search); a filter that is not     *)
(* supplied excludes no post.                                              *)
C15_TotalCountsMatching ==
    \A tag \in TagFilters, published \in PublishedFilters,
       search \in SearchFilters :
       LET r == GetPostsResult(1, 1, tag, published, search)
       IN /\ r.status = 200
          /\ r.val.total =
               Cardinality({k \in DOMAIN posts_db :
                              Satisfies(k, tag, published, search)})

(* The same statement on a store whose posts all pass the Post model.      *)
FiltersOnValidStore ==
    (\A k \in DOMAIN posts_db : PostOk(posts_db[k])) => C15_TotalCountsMatching

NewestFirst(list) ==
    \A i, j \in DOMAIN list :
       i < j => /\ list[i].created_at >= list[j].created_at
                /\ list[i].created_at = list[j].created_at
                     => list[i].id < list[j].id

RECURSIVE PagesUpTo(_, _, _)
PagesUpTo(list, page, page_size) ==
    IF page = 0 THEN <<>>
    ELSE PagesUpTo(list, page - 1, page_size) \o PageOf(list, page, page_size)

(* C16: the posts listed by get_posts are ordered by created_at            *)
(* descending, posts with equal created_at in creation (id) order; the     *)
(* pages of one listing follow each other without overlap or gap.          *)
C16_NewestFirstStable ==
    /\ \A tag \in TagFilters, published \in PublishedFilters,
          search \in SearchFilters :
          ~FilterRaises(tag, published, search) =>
             LET list == FilteredPosts(tag, published, search)
             IN /\ NewestFirst(list)
                /\ \A page_size \in PageSizes :
                     PagesUpTo(list, Len(list), page_size) = list
    /\ (resp.op = "get_posts" /\ resp.status = 200) =>
          NewestFirst(resp.val.items)

C16_Witness ==
    /\ resp.op = "get_posts" /\ resp.status = 200
    /\ Len(resp.val.items) = 2
    /\ resp.val.items[1].created_at = resp.val.items[2].created_at
    /\ resp.val.items[1].id < resp.val.items[2].id
    /\ resp.val.items[2].updated_at > resp.val.items[1].updated_at
(* C19: an update_post that ends in an error leaves the store unchanged;   *)
(* every stored post has a string title and content, a list of tags and a  *)
(* boolean published, also after updates that supply null; and get_post,   *)
(* get_posts with a search filter and get_posts_by_tag never fail.         *)
C19_StoredPostsWellTyped ==
    /\ \A p \in DOMAIN posts_db : posts_db[p].nulls = {}
    /\ resp.op \in {"get_post", "get_posts", "get_posts_by_tag"} =>
          resp.status # 500
(* C20: under the event loop no handler yields between reading and writing *)
(* the store, so only the task that has the loop is ever part-way through  *)
(* a handler; the create_post (resp. create_comment) requests that have    *)
(* returned 201 got pairwise distinct ids and each of their records is     *)
(* still stored; and the view count of a post equals the number of         *)
(* get_post requests on it that have returned 200.                         *)
Returned(op, status) ==
    {t \in DOMAIN tasks : /\ tasks[t].op = op /\ tasks[t].pc = "done"
                          /\ tasks[t].status = status}

DistinctAndStored(created, db) ==
    /\ \A t1, t2 \in created :
          t1 # t2 => tasks[t1].result # tasks[t2].result
    /\ \A t \in created :
          /\ tasks[t].result \in DOMAIN db
          /\ db[tasks[t].result].id = tasks[t].result
    /\ Cardinality(DOMAIN db) = Cardinality(created)

C20_HandlersAtomic ==
    /\ \A t \in DOMAIN tasks :
          tasks[t].pc \notin {"start", "done"} => running = t
    /\ DistinctAndStored(Returned("create_post", 201), posts_db)
    /\ DistinctAndStored(Returned("create_comment", 201), comments_db)
    /\ \A p \in DOMAIN posts_db :
          posts_db[p].views =
             Cardinality({t \in Returned("get_post", 200) : tasks[t].arg = p})

InFlightTogether(t1, t2) == t1 \in tasks[t2].seen \/ t2 \in tasks[t1].seen

C20_Witness ==
    /\ \E t1, t2 \in Returned("create_post", 201) :
          t1 # t2 /\ InFlightTogether(t1, t2)
    /\ \E t1, t2 \in Returned("get_post", 200) :
          /\ t1 # t2 /\ InFlightTogether(t1, t2)
          /\ tasks[t1].arg = tasks[t2].arg
          /\ posts_db[tasks[t1].arg].views = 2
====
